---- MODULE Spec2Model ----
(***************************************************************************)
(* BotBudget: recurring-payment store and reminder job, transaction store, *)
(* budget limits and the services on top of them.                          *)
(* Dates are proleptic Gregorian ordinals (datetime.date.toordinal).       *)
(* Money is an integer number of thousandths of a euro.                    *)
(***************************************************************************)
EXTENDS Integers, Sequences, FiniteSets, TLC

VARIABLES today, users, recurring, nextRecId, job, sentLog, lastIter, lastAdv,
          expenses, nextExpId, budgets, call, pending, weekly, rate, held

vars == <<today, users, recurring, nextRecId, job, sentLog, lastIter, lastAdv,
          expenses, nextExpId, budgets, call, pending, weekly, rate, held>>

recVars == <<recurring, nextRecId>>
jobVars == <<job, sentLog, lastIter>>
qryVars == <<lastAdv>>
expVars == <<expenses, nextExpId, budgets>>

\* ---------------------------------------------------------------- bounds
MaxRec == 3
MaxJobRec == 2
MaxDays == 2
MaxTx == 2
MaxHorizon == 3
MaxAdvance == 2
MaxOwn == 2

\* ------------------------------------------------------- calendar (date)
IsLeap(y) == (y % 4 = 0) /\ ((y % 100 # 0) \/ (y % 400 = 0))

DaysInMonth(y, m) ==
    IF m = 2 THEN (IF IsLeap(y) THEN 29 ELSE 28)
    ELSE IF m \in {4, 6, 9, 11} THEN 30 ELSE 31

DaysBeforeYear(y) ==
    (y - 1) * 365 + ((y - 1) \div 4) - ((y - 1) \div 100) + ((y - 1) \div 400)

RECURSIVE DaysBeforeMonth(_, _)
DaysBeforeMonth(y, m) ==
    IF m = 1 THEN 0 ELSE DaysBeforeMonth(y, m - 1) + DaysInMonth(y, m - 1)

\* date(y, m, d).toordinal()
Date(y, m, d) == DaysBeforeYear(y) + DaysBeforeMonth(y, m) + d

Years == 2025 .. 2029

YearOf(n) == CHOOSE y \in Years : DaysBeforeYear(y) < n /\ n <= DaysBeforeYear(y + 1)

MonthOf(n) ==
    LET y == YearOf(n)
        r == n - DaysBeforeYear(y)
    IN  CHOOSE m \in 1 .. 12 :
            DaysBeforeMonth(y, m) < r /\ r <= DaysBeforeMonth(y, m) + DaysInMonth(y, m)

DayOf(n) == n - DaysBeforeYear(YearOf(n)) - DaysBeforeMonth(YearOf(n), MonthOf(n))

\* d + timedelta(days=k)
PlusDays(d, k) == d + k

\* ------------------------------------------------------------ identities
Users == {101, 102}
Frequencies == {"daily", "weekly", "monthly", "yearly"}

\* --------------------------------------------- recurring_payments table
\* rows: [id, user_id, amount, frequency, next_due_date, remind_days_before, active]
RecRow(id, p) ==
    [id |-> id, user_id |-> p.user_id, amount |-> p.amount,
     frequency |-> p.frequency, next_due_date |-> p.next_due_date,
     remind_days_before |-> p.remind_days_before, active |-> p.active]

RecurringPaymentInactive(user_id, amount, frequency, next_due_date) ==
    [user_id |-> user_id, amount |-> amount, frequency |-> frequency,
     next_due_date |-> next_due_date, remind_days_before |-> 1, active |-> FALSE]

\* dataclass RecurringPayment with its defaults
RecurringPayment(user_id, amount, frequency, next_due_date) ==
    [user_id |-> user_id, amount |-> amount, frequency |-> frequency,
     next_due_date |-> next_due_date, remind_days_before |-> 1, active |-> TRUE]

RECURSIVE Perms(_)
Perms(S) ==
    IF S = {} THEN {<<>>}
    ELSE UNION {{<<x>> \o t : t \in Perms(S \ {x})} : x \in S}

SortedByDue(s) ==
    \A i \in 1 .. Len(s) - 1 : s[i].next_due_date <= s[i + 1].next_due_date

\* SELECT ... WHERE active = TRUE AND next_due_date <= target ORDER BY next_due_date ASC
\* (rows with equal dates come back in any order)
DueSoonRowsStrict(rows, day, days_ahead) ==
    LET target_date == PlusDays(day, days_ahead)
    IN  {r \in rows : r.active /\ r.next_due_date < target_date}

DueSoonRows(rows, day, days_ahead) ==
    LET target_date == PlusDays(day, days_ahead)
    IN  {r \in rows : r.active /\ r.next_due_date <= target_date}

\* get_due_soon that leaves out what is already overdue
GetDueSoonUpcoming(rows, day, days_ahead) ==
    {s \in Perms({r \in DueSoonRows(rows, day, days_ahead) : r.next_due_date >= day}) :
        SortedByDue(s)}

\* RecurringRepository.get_due_soon: the rows in ORDER BY next_due_date ASC
GetDueSoon(rows, day, days_ahead) ==
    {s \in Perms(DueSoonRows(rows, day, days_ahead)) : SortedByDue(s)}

\* delta_map.get(frequency, timedelta(days=30))
DeltaDays(frequency) ==
    IF frequency = "daily" THEN 1
    ELSE IF frequency = "weekly" THEN 7
    ELSE IF frequency = "monthly" THEN 30
    ELSE IF frequency = "yearly" THEN 365
    ELSE 30

\* new_date computed from the caller's payment object
NewDueDate(payment) == PlusDays(payment.next_due_date, DeltaDays(payment.frequency))

\* an UPDATE that adds the period to the stored date
AdvanceRowsRelative(rows, payment) ==
    {IF r.id = payment.id
     THEN [r EXCEPT !.next_due_date = PlusDays(r.next_due_date, DeltaDays(payment.frequency))]
     ELSE r
        : r \in rows}

\* UPDATE recurring_payments SET next_due_date = new WHERE id = payment.id
AdvanceRows(rows, payment) ==
    {IF r.id = payment.id THEN [r EXCEPT !.next_due_date = NewDueDate(payment)] ELSE r
        : r \in rows}

\* ------------------------------------------------- parser output (JSON)
\* A JSON scalar as the service sees it: k is its kind, v its value.
J(k, v) == [k |-> k, v |-> v]
JMissing == J("missing", 0)
JNull == J("null", 0)

\* float(parsed["amount"])
PyFloat(j) ==
    IF j.k = "missing" THEN [exc |-> "KeyError", v |-> 0]
    ELSE IF j.k \in {"num", "numstr"} THEN [exc |-> "none", v |-> j.v]
    ELSE IF j.k = "badstr" THEN [exc |-> "ValueError", v |-> 0]
    ELSE [exc |-> "TypeError", v |-> 0]

\* date.fromisoformat(parsed["date"])
FromIsoFormat(j) ==
    IF j.k = "missing" THEN [exc |-> "KeyError", v |-> 0]
    ELSE IF j.k = "iso" THEN [exc |-> "none", v |-> j.v]
    ELSE IF j.k = "badstr" THEN [exc |-> "ValueError", v |-> 0]
    ELSE [exc |-> "TypeError", v |-> 0]

\* parsed["key"] for a string-valued key
Subscript(x) == IF x = "missing" THEN "KeyError" ELSE "none"

\* keyword arguments are evaluated left to right: the first exception wins
RECURSIVE FirstExc(_)
FirstExc(s) ==
    IF s = <<>> THEN "none"
    ELSE IF Head(s) # "none" THEN Head(s)
    ELSE FirstExc(Tail(s))

\* NUMERIC(12,2): round half away from zero to a whole cent
Numeric2(a) ==
    IF a >= 0 THEN ((a + 5) \div 10) * 10 ELSE -(((-a + 5) \div 10) * 10)

DefaultQuestion == "try_again"
NoCall == [op |-> "none", user |-> 0, id |-> 0, parsed |-> <<>>, success |-> FALSE,
           raised |-> "none", msg |-> "none", question |-> "none", alerts |-> {},
           days_ahead |-> 0, rows |-> <<>>, lines |-> {}, checks |-> {},
           start |-> 0, end |-> 0, sel |-> {}, report |-> {}, cats |-> {},
           again |-> FALSE, text |-> <<>>, via |-> "none",
           manual |-> [ok |-> FALSE, amount |-> 0, frequency |-> "none", next_due_date |-> 0]]

GetQuestionGeneric(parsed) == DefaultQuestion

\* parsed.get("question", default)
GetQuestion(parsed) ==
    IF parsed.question = "missing" THEN DefaultQuestion ELSE parsed.question

\* ------------------------------------------------------ users table
EnsureUser(u) ==
    /\ users' = users \cup {u}
    /\ call' = [NoCall EXCEPT !.op = "ensure_user", !.user = u, !.success = TRUE]
    /\ UNCHANGED <<today, rate, held, weekly, pending, recVars, jobVars, qryVars, expVars>>

\* ------------------------------------------- RecurringService operations
\* RecurringPayment(...) inside the try block
EvalRecurring(parsed) ==
    LET amt == PyFloat(parsed.amount)
        due == FromIsoFormat(parsed.next_due_date)
    IN  [exc |-> FirstExc(<<Subscript(parsed.name), amt.exc,
                            Subscript(parsed.frequency), due.exc>>),
         amount |-> amt.v, next_due_date |-> due.v]

\* the INSERT of RecurringRepository.add against the table constraints
RecInsertOk(u, parsed) ==
    /\ u \in users
    /\ parsed.name # "null"
    /\ parsed.frequency \in Frequencies

\* RecurringService.add_from_text; c0 is the reply register of the caller
AddFromText(c0, u, parsed) ==
    /\ nextRecId <= MaxRec
    /\ LET c == [c0 EXCEPT !.user = u, !.parsed = parsed]
           ev == EvalRecurring(parsed)
       IN  IF parsed.shape # "dict"
           THEN /\ call' = [c EXCEPT !.raised = "TypeError"]
                /\ UNCHANGED recVars
           ELSE IF parsed.error # "missing"
           THEN /\ call' = [c EXCEPT !.question = GetQuestion(parsed)]
                /\ UNCHANGED recVars
           ELSE IF ev.exc \in {"KeyError", "ValueError"}
           THEN /\ call' = [c EXCEPT !.question = "problem_clear_format"]
                /\ UNCHANGED recVars
           ELSE IF ev.exc # "none"
           THEN /\ call' = [c EXCEPT !.raised = ev.exc]
                /\ UNCHANGED recVars
           ELSE IF ~RecInsertOk(u, parsed)
           THEN /\ call' = [c EXCEPT !.raised = "IntegrityError"]
                /\ nextRecId' = nextRecId + 1
                /\ UNCHANGED recurring
           ELSE /\ recurring' = recurring \cup
                       {RecRow(nextRecId,
                               RecurringPayment(u, Numeric2(ev.amount), parsed.frequency,
                                                ev.next_due_date))}
                /\ nextRecId' = nextRecId + 1
                /\ call' = [c EXCEPT !.success = TRUE, !.msg = "recurring_added",
                                     !.id = nextRecId]
    /\ UNCHANGED <<today, rate, held, weekly, pending, users, jobVars, qryVars, expVars>>

RecurringAddFromText(u, parsed) ==
    AddFromText([NoCall EXCEPT !.op = "recurring_add_from_text"], u, parsed)

\* ------------------------------------------- /add_recurring, structured form
\* a text is the list of its "|"-separated parts, already stripped; the amount
\* part is a list of characters.  "ar1" and "ar5" stand for the Arabic-Indic
\* digits one and five, "eur" for a currency sign, "a" for a letter.
Translate(ch) == IF ch = "ar1" THEN "1" ELSE IF ch = "ar5" THEN "5" ELSE ch

IsDigit(ch) == ch \in {"0", "1", "2", "5"}

DigitVal(ch) == IF ch = "1" THEN 1 ELSE IF ch = "2" THEN 2 ELSE IF ch = "5" THEN 5 ELSE 0

\* parts[1].translate(_AR_DIGITS), then re.sub(r"[^\d.]", "", amount_str)
AmountStr(chars) ==
    SelectSeq([i \in 1 .. Len(chars) |-> Translate(chars[i])],
              LAMBDA ch : IsDigit(ch) \/ ch = ".")

RECURSIVE IntOf(_)
IntOf(ds) == IF ds = <<>> THEN 0 ELSE 10 * IntOf(SubSeq(ds, 1, Len(ds) - 1)) + DigitVal(ds[Len(ds)])

RECURSIVE FracOf(_, _)
FracOf(ds, unit) ==
    IF ds = <<>> \/ unit = 0 THEN 0
    ELSE DigitVal(Head(ds)) * unit + FracOf(Tail(ds), unit \div 10)

\* float(amount_str), in thousandths
FloatOfStr(str) ==
    LET dots == {i \in 1 .. Len(str) : str[i] = "."}
    IN  IF Cardinality(dots) > 1 \/ Len(str) = Cardinality(dots)
        THEN [exc |-> "ValueError", v |-> 0]
        ELSE IF dots = {} THEN [exc |-> "none", v |-> 1000 * IntOf(str)]
        ELSE LET d == CHOOSE i \in dots : TRUE
             IN  [exc |-> "none",
                  v |-> 1000 * IntOf(SubSeq(str, 1, d - 1))
                          + FracOf(SubSeq(str, d + 1, Len(str)), 100)]

\* _FREQ_MAP.get(parts[2].strip().lower()); the Arabic words are written in
\* Latin letters
FreqMap(word) ==
    IF word \in {"yawmi", "yawm", "daily", "Daily"} THEN "daily"
    ELSE IF word \in {"usbuei", "usbue", "weekly", "Weekly"} THEN "weekly"
    ELSE IF word \in {"shahri", "shahr", "monthly", "Monthly"} THEN "monthly"
    ELSE IF word \in {"sanawi", "sana", "yearly", "Yearly"} THEN "yearly"
    ELSE "none"

\* _calc_next_due
CalcNextDue(frequency) ==
    LET y == YearOf(today)
        m == MonthOf(today)
        d == DayOf(today)
    IN  IF frequency = "daily" THEN PlusDays(today, 1)
        ELSE IF frequency = "weekly" THEN PlusDays(today, 7)
        ELSE IF frequency = "yearly"
        THEN Date(y + 1, m, IF d > DaysInMonth(y + 1, m) THEN DaysInMonth(y + 1, m) ELSE d)
        ELSE IF m = 12 THEN Date(y + 1, 1, 1) ELSE Date(y, m + 1, 1)

ManualNone == NoCall.manual

\* _parse_manual: None, or the dict of the structured text
ParseManual(parts) ==
    IF Len(parts) < 3 THEN ManualNone
    ELSE LET amount_str == AmountStr(parts[2])
             amount == FloatOfStr(amount_str)
             frequency == FreqMap(parts[3])
             given == IF Len(parts) >= 4 /\ parts[4] # J("str", "")
                      THEN FromIsoFormat(parts[4])
                      ELSE [exc |-> "ValueError", v |-> 0]
         IN  IF amount_str = <<>> THEN ManualNone
             ELSE IF amount.exc # "none" THEN ManualNone
             ELSE IF frequency = "none" THEN ManualNone
             ELSE [ok |-> TRUE, amount |-> amount.v, frequency |-> frequency,
                   next_due_date |-> IF given.exc = "none" THEN given.v
                                     ELSE CalcNextDue(frequency)]

\* add_recurring_command: the usage text without arguments; a structured text
\* goes to recurring_service.add_manual, which RecurringService does not
\* define, so the attribute lookup raises; any other text goes to
\* add_from_text, whose parser answer is parsed
AddRecurringCommand(u, parts, parsed) ==
    LET c == [NoCall EXCEPT !.op = "add_recurring_command", !.user = u, !.text = parts]
        m == ParseManual(parts)
    IN  IF parts = <<>>
        THEN /\ call' = [c EXCEPT !.msg = "usage"]
             /\ UNCHANGED <<today, rate, held, weekly, pending, users, recVars, jobVars, qryVars, expVars>>
        ELSE IF m.ok
        THEN /\ call' = [c EXCEPT !.via = "manual", !.manual = m,
                                  !.raised = "AttributeError"]
             /\ UNCHANGED <<today, rate, held, weekly, pending, users, recVars, jobVars, qryVars, expVars>>
        ELSE AddFromText([c EXCEPT !.via = "parser"], u, parsed)

\* DELETE FROM recurring_payments WHERE id = %s AND user_id = %s
RecDeleteRows(rows, payment_id, user_id) ==
    {r \in rows : ~(r.id = payment_id /\ r.user_id = user_id)}

DeletePayment(payment_id, u) ==
    /\ LET deleted == RecDeleteRows(recurring, payment_id, u) # recurring
       IN  /\ recurring' = RecDeleteRows(recurring, payment_id, u)
           /\ call' = [NoCall EXCEPT !.op = "delete_payment", !.user = u,
                           !.id = payment_id, !.success = deleted,
                           !.msg = IF deleted THEN "recurring_deleted"
                                   ELSE "recurring_not_found"]
    /\ UNCHANGED <<today, rate, held, weekly, pending, users, nextRecId, jobVars, qryVars, expVars>>

RecToggleRowsSkipCycle(rows, payment_id, user_id, active) ==
    {IF r.id = payment_id /\ r.user_id = user_id
     THEN [r EXCEPT !.active = active,
                    !.next_due_date = IF active THEN NewDueDate(r) ELSE r.next_due_date]
     ELSE r : r \in rows}

\* UPDATE recurring_payments SET active = %s WHERE id = %s AND user_id = %s
RecToggleRows(rows, payment_id, user_id, active) ==
    {IF r.id = payment_id /\ r.user_id = user_id THEN [r EXCEPT !.active = active] ELSE r
        : r \in rows}

TogglePayment(payment_id, u, active) ==
    /\ LET updated == \E r \in recurring : r.id = payment_id /\ r.user_id = u
       IN  /\ recurring' = RecToggleRows(recurring, payment_id, u, active)
           /\ call' = [NoCall EXCEPT !.op = "toggle_payment", !.user = u,
                           !.id = payment_id, !.success = updated,
                           !.parsed = [active |-> active],
                           !.msg = IF ~updated THEN "recurring_not_found"
                                   ELSE IF active THEN "recurring_enabled"
                                   ELSE "recurring_disabled"]
    /\ UNCHANGED <<today, rate, held, weekly, pending, users, nextRecId, jobVars, qryVars, expVars>>

\* SELECT * FROM recurring_payments WHERE user_id = %s [AND active = TRUE]
\*   ORDER BY next_due_date ASC
GetAll(rows, user_id, active_only) ==
    {s \in Perms({r \in rows : r.user_id = user_id /\ (active_only => r.active)}) :
        SortedByDue(s)}

\* RecurringService.list_active(user_id)
ListActive(u) ==
    /\ \E s \in GetAll(recurring, u, TRUE) :
           call' = [NoCall EXCEPT !.op = "list_active", !.user = u, !.success = TRUE,
                                  !.rows = s,
                                  !.msg = IF s = <<>> THEN "no_recurring" ELSE "recurring_list"]
    /\ UNCHANGED <<today, rate, held, weekly, pending, users, recVars, jobVars, qryVars, expVars>>

\* SELECT * FROM recurring_payments WHERE id = %s AND user_id = %s
RecGetById(rows, payment_id, user_id) ==
    {r \in rows : r.id = payment_id /\ r.user_id = user_id}

\* RecurringRepository.get_by_id(payment_id, user_id)
GetByIdCall(payment_id, u) ==
    /\ call' = [NoCall EXCEPT !.op = "get_by_id", !.user = u, !.id = payment_id,
                              !.sel = RecGetById(recurring, payment_id, u),
                              !.success = RecGetById(recurring, payment_id, u) # {}]
    /\ UNCHANGED <<today, rate, held, weekly, pending, users, recVars, jobVars, qryVars, expVars>>

\* RecurringRepository.get_due_soon(days_ahead): a read, the result is kept
GetDueSoonCall(days_ahead) ==
    /\ \E s \in GetDueSoon(recurring, today, days_ahead) :
           call' = [NoCall EXCEPT !.op = "get_due_soon", !.success = TRUE,
                                  !.days_ahead = days_ahead, !.rows = s]
    /\ UNCHANGED <<today, rate, held, weekly, pending, users, recVars, jobVars, qryVars, expVars>>

\* RecurringService.get_due_reminders
GetDueReminders ==
    /\ \E s \in GetDueSoon(recurring, today, 2) :
           call' = [NoCall EXCEPT !.op = "get_due_reminders", !.success = TRUE,
                                  !.rows = s]
    /\ UNCHANGED <<today, rate, held, weekly, pending, users, recVars, jobVars, qryVars, expVars>>

\* RecurringService.advance_due_date(payment), payment being an object read before
AdvanceDueDate(payment) ==
    /\ recurring' = AdvanceRows(recurring, payment)
    /\ lastAdv' = [n |-> lastAdv.n + 1, id |-> payment.id, frequency |-> payment.frequency,
                   old |-> payment.next_due_date, new |-> NewDueDate(payment),
                   applied |-> \E r \in recurring : r.id = payment.id]
    /\ call' = [NoCall EXCEPT !.op = "advance_due_date", !.id = payment.id,
                              !.success = TRUE]
    /\ UNCHANGED <<today, rate, weekly, pending, users, nextRecId, jobVars, expVars>>

\* advance_due_date on a payment object returned by an earlier get_due_soon
AdvanceDueDateCall ==
    /\ lastAdv.n < MaxAdvance
    /\ call.op = "get_due_soon"
    /\ \E i \in 1 .. Len(call.rows) : AdvanceDueDate(call.rows[i])
    /\ UNCHANGED held

\* advance_due_date on a payment object just read with get_by_id
AdvanceDueDateFresh ==
    /\ lastAdv.n < MaxAdvance
    /\ \E r \in recurring : AdvanceDueDate(r)
    /\ UNCHANGED held

\* two callers of the service, each holding the list it got from
\* get_due_reminders: held[k].due is what caller k still has to advance,
\* held[k].done the payment objects it has passed to advance_due_date
Callers == {1, 2}

HoldDueSoon(k) ==
    /\ \E s \in GetDueSoon(recurring, today, 2) :
           /\ held' = [held EXCEPT ![k] = [due |-> s, done |-> {}]]
           /\ call' = [NoCall EXCEPT !.op = "get_due_reminders", !.success = TRUE,
                                     !.rows = s]
    /\ UNCHANGED <<today, rate, weekly, pending, users, recVars, jobVars, qryVars, expVars>>

\* caller k passes the next payment object of its list to advance_due_date
AdvanceHeld(k) ==
    /\ held[k].due # <<>>
    /\ AdvanceDueDate(Head(held[k].due))
    /\ held' = [held EXCEPT ![k] = [due |-> Tail(held[k].due),
                                    done |-> held[k].done \cup {Head(held[k].due)}]]

\* ------------------------------------------------------ expenses table
\* rows: [id, user_id, type, amount, category, description, date, raw_text]
TxTypes == {"expense", "income"}

\* month window of the services: [date(y, m, 1), last day of the month]
MonthStart(y, m) == Date(y, m, 1)
MonthEndThirty(y, m) == PlusDays(Date(y, m, 1), 29)

MonthEnd(y, m) == IF m < 12 THEN PlusDays(Date(y, m + 1, 1), -1) ELSE Date(y, 12, 31)

RECURSIVE SumAmounts(_)
SumAmounts(rows) ==
    IF rows = {} THEN 0
    ELSE LET r == CHOOSE x \in rows : TRUE
         IN  r.amount + SumAmounts(rows \ {r})

CategoryRowsAnyDate(rows, user_id, start, end) ==
    {r \in rows : r.user_id = user_id /\ r.type = "expense"}

\* SELECT category, SUM(amount) ... WHERE user_id AND type = 'expense'
\*   AND date BETWEEN start AND end GROUP BY category
CategoryRows(rows, user_id, start, end) ==
    {r \in rows : r.user_id = user_id /\ r.type = "expense"
                    /\ start <= r.date /\ r.date <= end}

GetCategorySummary(rows, user_id, start, end) ==
    LET sel == CategoryRows(rows, user_id, start, end)
    IN  {[category |-> c, total |-> SumAmounts({r \in sel : r.category = c})]
            : c \in {r.category : r \in sel}}

\* get_monthly_total that compares the month only
GetMonthlyTotalAnyYear(rows, user_id, y, m) ==
    LET sel == {r \in rows : r.user_id = user_id /\ MonthOf(r.date) = m}
        exp == SumAmounts({r \in sel : r.type = "expense"})
        inc == SumAmounts({r \in sel : r.type = "income"})
    IN  [total_expenses |-> exp, total_income |-> inc, net |-> inc - exp]

\* SELECT type, SUM(amount) ... WHERE EXTRACT(YEAR ..) = y AND EXTRACT(MONTH ..) = m
GetMonthlyTotal(rows, user_id, y, m) ==
    LET sel == {r \in rows : r.user_id = user_id /\ YearOf(r.date) = y /\ MonthOf(r.date) = m}
        exp == SumAmounts({r \in sel : r.type = "expense"})
        inc == SumAmounts({r \in sel : r.type = "income"})
    IN  [total_expenses |-> exp, total_income |-> inc, net |-> inc - exp]

\* ------------------------------------------------------- budgets table
\* rows: [user_id, category, limit_amount], UNIQUE(user_id, category)
Overall == "overall"

GetBudget(rows, user_id, category) ==
    {b \in rows : b.user_id = user_id /\ b.category = category}

\* a / b on floats: a zero divisor raises
PyDiv(a, b) ==
    IF b = 0 THEN [exc |-> "ZeroDivisionError", num |-> 0, den |-> 1, low |-> FALSE]
    ELSE [exc |-> "none", num |-> a, den |-> b, low |-> FALSE]

\* IEEE-754 doubles: the (spent, limit) pairs of the inputs used here, in
\* thousandths, whose exact ratio is 80% but for which spent / limit * 100
\* evaluates to 79.99999999999999, e.g. 9.04 / 11.3 * 100
DoubleBelow80 == {<<9040, 11300>>}

PctUnguarded(spent, limit) ==
    [PyDiv(spent * 100, limit) EXCEPT !.low = <<spent, limit>> \in DoubleBelow80]

\* pct = (spent / limit * 100) if limit > 0 else 0, kept as the exact fraction
\* num/den with the rounding of the double at the 80% threshold
Pct(spent, limit) ==
    IF limit > 0
    THEN [PyDiv(spent * 100, limit) EXCEPT !.low = <<spent, limit>> \in DoubleBelow80]
    ELSE [exc |-> "none", num |-> 0, den |-> 1, low |-> FALSE]

\* pct >= k
PctGE(p, k) ==
    IF p.low /\ p.num = k * p.den THEN FALSE ELSE p.num >= k * p.den

\* if pct >= 100 ... elif pct >= 80 ... else
Tier(p) ==
    IF PctGE(p, 100) THEN "exceeded"
    ELSE IF PctGE(p, 80) THEN "warning"
    ELSE "safe"

\* one rendered line of get_budget_status
StatusLine(b, spent) ==
    LET p == Pct(spent, b.limit_amount)
    IN  [category |-> b.category, spent |-> spent, limit |-> b.limit_amount,
         exc |-> p.exc, status |-> Tier(p)]

\* spending_map.get(cat, 0)
SpendingOf(cat_summary, cat) ==
    IF \E c \in cat_summary : c.category = cat
    THEN (CHOOSE c \in cat_summary : c.category = cat).total
    ELSE 0

RECURSIVE SumTotals(_)
SumTotals(cs) ==
    IF cs = {} THEN 0
    ELSE LET c == CHOOSE x \in cs : TRUE
         IN  c.total + SumTotals(cs \ {c})

BudgetStatusLines(user_id) ==
    LET y == YearOf(today)
        m == MonthOf(today)
        cat_summary == GetCategorySummary(expenses, user_id, MonthStart(y, m), MonthEnd(y, m))
        total_spent == GetMonthlyTotal(expenses, user_id, y, m).total_expenses
    IN  {StatusLine(b, IF b.category = Overall THEN total_spent
                       ELSE SpendingOf(cat_summary, b.category))
            : b \in {x \in budgets : x.user_id = user_id}}

\* get_budget_status that reports only the lines the previous reply did not
\* already show
GetBudgetStatusDelta(u) ==
    /\ LET lines == BudgetStatusLines(u) \ call.lines
           c == [NoCall EXCEPT !.op = "get_budget_status", !.user = u,
                               !.start = MonthStart(YearOf(today), MonthOf(today)),
                               !.again = (call.op = "get_budget_status" /\ call.user = u)]
       IN  IF \E l \in lines : l.exc # "none"
           THEN call' = [c EXCEPT !.raised = "ZeroDivisionError"]
           ELSE call' = [c EXCEPT !.success = TRUE, !.lines = lines,
                                  !.msg = IF lines = {} THEN "no_budget" ELSE "budget_status"]
    /\ UNCHANGED <<today, rate, held, weekly, pending, users, recVars, jobVars, qryVars, expVars>>

\* BudgetService.get_budget_status: the header month (start), the lines, or
\* the no-budget hint; again marks a call that directly follows another
\* get_budget_status call of the same user
GetBudgetStatus(u) ==
    /\ LET lines == BudgetStatusLines(u)
           c == [NoCall EXCEPT !.op = "get_budget_status", !.user = u,
                               !.start = MonthStart(YearOf(today), MonthOf(today)),
                               !.again = (call.op = "get_budget_status" /\ call.user = u)]
       IN  IF \E l \in lines : l.exc # "none"
           THEN call' = [c EXCEPT !.raised = "ZeroDivisionError"]
           ELSE call' = [c EXCEPT !.success = TRUE, !.lines = lines,
                                  !.msg = IF lines = {} THEN "no_budget" ELSE "budget_status"]
    /\ UNCHANGED <<today, rate, held, weekly, pending, users, recVars, jobVars, qryVars, expVars>>

\* one threshold check of check_budget_alert: the pair it compared and the
\* alert level it appended ("safe" appends nothing)
AlertCheck(scope, spent, limit) ==
    LET p == Pct(spent, limit)
    IN  [scope |-> scope, spent |-> spent, limit |-> limit, exc |-> p.exc, level |-> Tier(p)]

\* BudgetService.check_budget_alert(user_id, category, 0) over the given rows
BudgetChecks(rows, user_id, category) ==
    LET y == YearOf(today)
        m == MonthOf(today)
        cat_summary == GetCategorySummary(rows, user_id, MonthStart(y, m), MonthEnd(y, m))
        cat_spent == SumTotals({c \in cat_summary : c.category = category})
        totals == GetMonthlyTotal(rows, user_id, y, m)
    IN  {AlertCheck("category", cat_spent, b.limit_amount)
            : b \in GetBudget(budgets, user_id, category)}
        \cup {AlertCheck("overall", totals.total_expenses, b.limit_amount)
                : b \in GetBudget(budgets, user_id, Overall)}

\* the alert lines joined into the reply
AlertLines(checks) == {[scope |-> c.scope, level |-> c.level] : c \in {x \in checks : x.level # "safe"}}

\* -------------------------------------------- ExpenseService operations
\* Expense(...) inside the try block of add_from_text
EvalExpense(parsed) ==
    LET amt == PyFloat(parsed.amount)
        dt == FromIsoFormat(parsed.date)
    IN  [exc |-> FirstExc(<<Subscript(parsed.type), amt.exc, dt.exc>>),
         amount |-> amt.v, date |-> dt.v,
         category |-> IF parsed.category = "missing" THEN "other" ELSE parsed.category]

\* the INSERT / UPDATE of the expenses table against its constraints
ExpInsertOk(known, u, type) ==
    /\ u \in known
    /\ type \in TxTypes

\* handle_text_message: ensure_user, ExpenseService.add_from_text, then
\* check_budget_alert on success
HandleTextMessage(u, text, parsed) ==
    /\ nextExpId <= MaxTx
    /\ IF text = ""
       THEN /\ call' = [NoCall EXCEPT !.op = "handle_text_message", !.user = u]
            /\ UNCHANGED <<users, expVars>>
       ELSE
       /\ users' = users \cup {u}
       /\ LET c == [NoCall EXCEPT !.op = "add_from_text", !.user = u, !.parsed = parsed]
              ev == EvalExpense(parsed)
              row == [id |-> nextExpId, user_id |-> u, type |-> parsed.type,
                      amount |-> Numeric2(ev.amount), category |-> ev.category,
                      description |-> parsed.description, date |-> ev.date,
                      raw_text |-> text]
              checks == BudgetChecks(expenses \cup {row}, u, ev.category)
          IN  IF parsed.shape # "dict"
              THEN /\ call' = [c EXCEPT !.raised = "TypeError"]
                   /\ UNCHANGED expVars
              ELSE IF parsed.error # "missing"
              THEN /\ call' = [c EXCEPT !.question = GetQuestion(parsed)]
                   /\ UNCHANGED expVars
              ELSE IF ev.exc \in {"KeyError", "ValueError"}
              THEN /\ call' = [c EXCEPT !.question = "problem_other_format"]
                   /\ UNCHANGED expVars
              ELSE IF ev.exc # "none"
              THEN /\ call' = [c EXCEPT !.raised = ev.exc]
                   /\ UNCHANGED expVars
              ELSE IF ~ExpInsertOk(users \cup {u}, u, parsed.type)
              THEN /\ call' = [c EXCEPT !.raised = "IntegrityError"]
                   /\ nextExpId' = nextExpId + 1
                   /\ UNCHANGED <<expenses, budgets>>
              ELSE /\ expenses' = expenses \cup {row}
                   /\ nextExpId' = nextExpId + 1
                   /\ call' = IF \E k \in checks : k.exc # "none"
                              THEN [c EXCEPT !.raised = "ZeroDivisionError", !.id = nextExpId]
                              ELSE [c EXCEPT !.success = TRUE, !.msg = "recorded",
                                             !.id = nextExpId, !.checks = checks,
                                             !.alerts = AlertLines(checks)]
                   /\ UNCHANGED budgets
    /\ UNCHANGED <<today, rate, held, weekly, pending, recVars, jobVars, qryVars>>

ExpDeleteRowsAnyOwner(rows, expense_id, user_id) ==
    {r \in rows : r.id # expense_id}

\* DELETE FROM expenses WHERE id = %s AND user_id = %s
ExpDeleteRows(rows, expense_id, user_id) ==
    {r \in rows : ~(r.id = expense_id /\ r.user_id = user_id)}

DeleteExpense(expense_id, u) ==
    /\ LET deleted == ExpDeleteRows(expenses, expense_id, u) # expenses
       IN  /\ expenses' = ExpDeleteRows(expenses, expense_id, u)
           /\ call' = [NoCall EXCEPT !.op = "delete_expense", !.user = u,
                           !.id = expense_id, !.success = deleted,
                           !.msg = IF deleted THEN "deleted" ELSE "not_found_or_not_yours"]
    /\ UNCHANGED <<today, rate, held, weekly, pending, users, recVars, jobVars, qryVars, nextExpId, budgets>>

\* SELECT * FROM expenses WHERE id = %s AND user_id = %s
ExpGetById(rows, expense_id, user_id) ==
    {r \in rows : r.id = expense_id /\ r.user_id = user_id}

\* ExpenseRepository.get_by_id(id, user) for the id that add_from_text has
\* just returned to the same user
ReadBack ==
    /\ call.op = "add_from_text"
    /\ call.success
    /\ call' = [NoCall EXCEPT !.op = "expense_get_by_id", !.user = call.user, !.id = call.id,
                              !.parsed = call.parsed,
                              !.sel = ExpGetById(expenses, call.id, call.user),
                              !.success = ExpGetById(expenses, call.id, call.user) # {}]
    /\ UNCHANGED <<today, rate, held, weekly, pending, users, recVars, jobVars, qryVars, expVars>>

\* UPDATE expenses SET amount, category, description, date, type WHERE id AND user_id
ExpUpdateRows(rows, e) ==
    {IF r.id = e.id /\ r.user_id = e.user_id
     THEN [r EXCEPT !.amount = Numeric2(e.amount), !.category = e.category,
                    !.description = e.description, !.date = e.date, !.type = e.type]
     ELSE r : r \in rows}

\* ExpenseService.edit_expense; an argument of "none" is Python's None
EditExpense(expense_id, u, amount, category, description) ==
    /\ LET found == ExpGetById(expenses, expense_id, u)
           c == [NoCall EXCEPT !.op = "edit_expense", !.user = u, !.id = expense_id,
                               !.parsed = [amount |-> amount, category |-> category,
                                           description |-> description]]
       IN  IF found = {}
           THEN /\ call' = [c EXCEPT !.msg = "not_found_or_not_yours"]
                /\ UNCHANGED expenses
           ELSE IF amount.k = "null" /\ category = "none" /\ description = "none"
           THEN /\ call' = [c EXCEPT !.msg = "no_changes"]
                /\ UNCHANGED expenses
           ELSE LET old == CHOOSE r \in found : TRUE
                    e == [old EXCEPT
                            !.amount = IF amount.k = "null" THEN old.amount ELSE amount.v,
                            !.category = IF category = "none" THEN old.category ELSE category,
                            !.description = IF description = "none" THEN old.description
                                            ELSE description]
                IN  /\ expenses' = ExpUpdateRows(expenses, e)
                    /\ call' = [c EXCEPT !.success = TRUE, !.msg = "edited"]
    /\ UNCHANGED <<today, rate, held, weekly, pending, users, recVars, jobVars, qryVars, nextExpId, budgets>>

\* an edit_expense call between its get_by_id and its update: the Expense
\* object it holds and the arguments it was called with
NoPending == [active |-> FALSE, expense |-> <<>>, args |-> <<>>]

\* the Expense object after the supplied fields were assigned
EditedExpense(old, amount, category, description) ==
    [old EXCEPT !.amount = IF amount.k = "null" THEN old.amount ELSE amount.v,
                !.category = IF category = "none" THEN old.category ELSE category,
                !.description = IF description = "none" THEN old.description
                                ELSE description]

\* edit_expense up to the call of repo.update: get_by_id has committed
EditRead(expense_id, u, amount, category, description) ==
    /\ ~pending.active
    /\ LET found == ExpGetById(expenses, expense_id, u)
           args == [amount |-> amount, category |-> category, description |-> description]
           c == [NoCall EXCEPT !.op = "edit_expense", !.user = u, !.id = expense_id,
                               !.parsed = args]
       IN  IF found = {}
           THEN /\ call' = [c EXCEPT !.msg = "not_found_or_not_yours"]
                /\ UNCHANGED pending
           ELSE IF amount.k = "null" /\ category = "none" /\ description = "none"
           THEN /\ call' = [c EXCEPT !.msg = "no_changes"]
                /\ UNCHANGED pending
           ELSE /\ pending' = [active |-> TRUE, args |-> args,
                               expense |-> EditedExpense(CHOOSE r \in found : TRUE,
                                                         amount, category, description)]
                /\ call' = [c EXCEPT !.op = "get_by_id", !.success = TRUE]
    /\ UNCHANGED <<today, rate, held, weekly, users, recVars, jobVars, qryVars, expVars>>

\* the rest of edit_expense: repo.update(expense) and the reply
EditWrite ==
    /\ pending.active
    /\ LET e == pending.expense
           updated == ExpGetById(expenses, e.id, e.user_id) # {}
       IN  /\ expenses' = ExpUpdateRows(expenses, e)
           /\ call' = [NoCall EXCEPT !.op = "edit_expense", !.user = e.user_id, !.id = e.id,
                           !.parsed = pending.args, !.success = updated,
                           !.msg = IF updated THEN "edited" ELSE "edit_failed"]
    /\ pending' = NoPending
    /\ UNCHANGED <<today, rate, held, weekly, users, recVars, jobVars, qryVars, nextExpId, budgets>>

SetBudgetRowsInsert(rows, user_id, category, limit_amount) ==
    rows \cup {[user_id |-> user_id, category |-> category,
                limit_amount |-> Numeric2(limit_amount)]}

\* INSERT INTO budgets ... ON CONFLICT (user_id, category) DO UPDATE
SetBudgetRows(rows, user_id, category, limit_amount) ==
    {b \in rows : ~(b.user_id = user_id /\ b.category = category)}
        \cup {[user_id |-> user_id, category |-> category,
               limit_amount |-> Numeric2(limit_amount)]}

\* BudgetService.set_budget
SetBudget(u, category, amount) ==
    /\ LET c == [NoCall EXCEPT !.op = "set_budget", !.user = u,
                               !.parsed = [category |-> category, amount |-> amount],
                               !.sel = GetBudget(budgets, u, category)]
       IN  IF u \in users
           THEN /\ budgets' = SetBudgetRows(budgets, u, category, amount)
                /\ call' = [c EXCEPT !.success = TRUE, !.msg = "budget_set"]
           ELSE /\ call' = [c EXCEPT !.raised = "IntegrityError"]
                /\ UNCHANGED budgets
    /\ UNCHANGED <<today, rate, held, weekly, pending, users, recVars, jobVars, qryVars, expenses, nextExpId>>

\* BudgetService.delete_budget
DeleteBudget(u, category) ==
    /\ LET deleted == GetBudget(budgets, u, category) # {}
       IN  /\ budgets' = budgets \ GetBudget(budgets, u, category)
           /\ call' = [NoCall EXCEPT !.op = "delete_budget", !.user = u, !.success = deleted,
                           !.parsed = [category |-> category],
                           !.msg = IF deleted THEN "budget_deleted" ELSE "no_such_budget"]
    /\ UNCHANGED <<today, rate, held, weekly, pending, users, recVars, jobVars, qryVars, expenses, nextExpId>>

\* ------------------------------------------- summaries of transactions
\* SELECT * FROM expenses WHERE user_id = %s AND date BETWEEN %s AND %s
GetByDateRange(rows, user_id, start, end) ==
    {r \in rows : r.user_id = user_id /\ start <= r.date /\ r.date <= end}

\* SELECT * ... WHERE user_id = %s AND category = %s AND date BETWEEN %s AND %s
GetByCategory(rows, user_id, category, start, end) ==
    {r \in GetByDateRange(rows, user_id, start, end) : r.category = category}

\* sum(e.amount for e in expenses if e.type == type)
SumOfType(sel, type) == SumAmounts({r \in sel : r.type = type})

\* a labelled figure of a rendered summary
Figure(label, v) == [label |-> label, v |-> v]

\* the three totals of the today / week / range summaries
SummaryReport(sel) ==
    {Figure("total_expenses", SumOfType(sel, "expense")),
     Figure("total_income", SumOfType(sel, "income")),
     Figure("net", SumOfType(sel, "income") - SumOfType(sel, "expense"))}

\* total = sum(e.amount for e in expenses)
TotalReport(sel) == {Figure("total", SumAmounts(sel))}

\* `year or today.year`: None and 0 select the default
PyOr(a, b) == IF a = 0 THEN b ELSE a

\* the reply of a summary over the rows sel of the window [start, end]
SummaryCall(op, u, start, end, sel, report, cats) ==
    [NoCall EXCEPT !.op = op, !.user = u, !.success = TRUE, !.start = start, !.end = end,
                   !.sel = sel, !.report = IF sel = {} THEN {} ELSE report,
                   !.cats = IF sel = {} THEN {} ELSE cats,
                   !.msg = IF sel = {} THEN "no_transactions" ELSE "summary"]

GetTodaySummary(u) ==
    /\ LET sel == GetByDateRange(expenses, u, today, today)
       IN  call' = SummaryCall("get_today_summary", u, today, today, sel,
                               SummaryReport(sel), {})
    /\ UNCHANGED <<today, rate, held, weekly, pending, users, recVars, jobVars, qryVars, expVars>>

\* the reply of get_week_summary(u)
WeekSummaryOf(u) ==
    LET week_start == PlusDays(today, -6)
        sel == GetByDateRange(expenses, u, week_start, today)
    IN  SummaryCall("get_week_summary", u, week_start, today, sel, SummaryReport(sel),
                    GetCategorySummary(expenses, u, week_start, today))

GetWeekSummary(u) ==
    /\ call' = WeekSummaryOf(u)
    /\ UNCHANGED <<today, rate, held, weekly, pending, users, recVars, jobVars, qryVars, expVars>>

GetDateRangeReport(u, start, end) ==
    /\ LET sel == GetByDateRange(expenses, u, start, end)
       IN  call' = SummaryCall("get_date_range_report", u, start, end, sel,
                               SummaryReport(sel),
                               GetCategorySummary(expenses, u, start, end))
    /\ UNCHANGED <<today, rate, held, weekly, pending, users, recVars, jobVars, qryVars, expVars>>

\* get_month_summary always renders its totals, also for an empty month
GetMonthSummary(u, year, month) ==
    /\ LET y == PyOr(year, YearOf(today))
           m == PyOr(month, MonthOf(today))
           totals == GetMonthlyTotal(expenses, u, y, m)
           sel == {r \in expenses : r.user_id = u /\ YearOf(r.date) = y /\ MonthOf(r.date) = m}
       IN  call' = [NoCall EXCEPT !.op = "get_month_summary", !.user = u, !.success = TRUE,
                        !.parsed = [year |-> y, month |-> m],
                        !.start = MonthStart(y, m), !.end = MonthEnd(y, m), !.sel = sel,
                        !.report = {Figure("total_expenses", totals.total_expenses),
                                    Figure("total_income", totals.total_income),
                                    Figure("net", totals.net)},
                        !.cats = GetCategorySummary(expenses, u, MonthStart(y, m),
                                                    MonthEnd(y, m)),
                        !.msg = "summary"]
    /\ UNCHANGED <<today, rate, held, weekly, pending, users, recVars, jobVars, qryVars, expVars>>

GetCategoryDetails(u, category, year, month) ==
    /\ LET y == PyOr(year, YearOf(today))
           m == PyOr(month, MonthOf(today))
           start == MonthStart(y, m)
           end == MonthEnd(y, m)
           sel == GetByCategory(expenses, u, category, start, end)
       IN  call' = [SummaryCall("get_category_details", u, start, end, sel,
                                TotalReport(sel), {})
                        EXCEPT !.parsed = [year |-> y, month |-> m]]
    /\ UNCHANGED <<today, rate, held, weekly, pending, users, recVars, jobVars, qryVars, expVars>>

\* ------------------------------------------------------ ExportService
\* one exported line per transaction of the window, whatever its type; n keeps
\* the lines of equal content apart
ExportRows(rows, user_id, start, end) ==
    {[n |-> r.id, date |-> r.date, type |-> r.type, amount |-> r.amount,
      category |-> r.category, description |-> r.description]
        : r \in GetByDateRange(rows, user_id, start, end)}

\* df.groupby(category)[amount].sum()
GroupByCategory(lines) ==
    {[category |-> c, total |-> SumAmounts({l \in lines : l.category = c})]
        : c \in {l.category : l \in lines}}

\* export_month_csv(user_id, year, month): the data lines of the file
ExportMonthCsv(u, year, month) ==
    /\ call' = [NoCall EXCEPT !.op = "export_month_csv", !.user = u, !.success = TRUE,
                    !.parsed = [year |-> year, month |-> month],
                    !.start = MonthStart(year, month), !.end = MonthEnd(year, month),
                    !.sel = ExportRows(expenses, u, MonthStart(year, month),
                                       MonthEnd(year, month))]
    /\ UNCHANGED <<today, rate, held, weekly, pending, users, recVars, jobVars, qryVars, expVars>>

\* export_month_excel: the same lines and, when there are any, the summary sheet
ExportMonthExcel(u, year, month) ==
    /\ LET lines == ExportRows(expenses, u, MonthStart(year, month), MonthEnd(year, month))
       IN  call' = [NoCall EXCEPT !.op = "export_month_excel", !.user = u, !.success = TRUE,
                        !.parsed = [year |-> year, month |-> month],
                        !.start = MonthStart(year, month), !.end = MonthEnd(year, month),
                        !.sel = lines, !.cats = GroupByCategory(lines)]
    /\ UNCHANGED <<today, rate, held, weekly, pending, users, recVars, jobVars, qryVars, expVars>>

\* ------------------------------------------------------- the rate limiter
\* config.py: both are read from the environment; small values keep the
\* window within the clock's range
RATE_LIMIT_MESSAGES == 2
RATE_LIMIT_WINDOW_SECONDS == 2
MaxClock == 3

\* _cleanup: the timestamps newer than the cutoff
Cleanup(stamps, now) ==
    SelectSeq(stamps, LAMBDA t : t > now - RATE_LIMIT_WINDOW_SECONDS)

OverLimitStrict(kept) == Len(kept) > RATE_LIMIT_MESSAGES

\* len(_user_timestamps[user.id]) >= RATE_LIMIT_MESSAGES
OverLimit(kept) == Len(kept) >= RATE_LIMIT_MESSAGES

\* the wrapper of rate_limited around the handler of command cmd; rate.clock is
\* time.time(), rate.stamps is _user_timestamps, rate.served lists the times
\* at which the wrapped handler was entered
RateLimited(u, cmd) ==
    /\ LET kept == Cleanup(rate.stamps[u], rate.clock)
           c == [NoCall EXCEPT !.op = "rate_limited", !.user = u, !.via = cmd]
       IN  IF OverLimit(kept)
           THEN /\ rate' = [rate EXCEPT !.stamps[u] = kept]
                /\ call' = [c EXCEPT !.msg = "rate_limit_warning"]
           ELSE /\ rate' = [rate EXCEPT !.stamps[u] = Append(kept, rate.clock),
                                        !.served[u] = Append(@, rate.clock)]
                /\ call' = [c EXCEPT !.success = TRUE, !.msg = "handled"]
    /\ UNCHANGED <<today, held, weekly, pending, users, recVars, jobVars, qryVars, expVars>>

\* time.time() moves on
ClockTick ==
    /\ rate.clock < MaxClock
    /\ rate' = [rate EXCEPT !.clock = @ + 1]
    /\ call' = NoCall
    /\ UNCHANGED <<today, held, weekly, pending, users, recVars, jobVars, qryVars, expVars>>

\* ------------------------------------------------------------- the clock
Day0 == Date(2026, 1, 13)

Tick ==
    /\ today < Day0 + MaxDays
    /\ today' = today + 1
    /\ call' = NoCall
    /\ UNCHANGED <<rate, held, weekly, pending, users, recVars, jobVars, qryVars, expVars>>

\* ------------------------------------------------ send_reminders (daily)
\* Python values carry their type: comparing a date with a float raises
PyDate(n) == [t |-> "date", v |-> n]
LoopTime == [t |-> "float", v |-> 0]

PyLe(a, b) ==
    IF a.t = b.t THEN [exc |-> "none", val |-> a.v <= b.v]
    ELSE [exc |-> "TypeError", val |-> FALSE]

NoIter == [id |-> 0, due |-> 0, sent |-> FALSE, advanced |-> 0, again |-> FALSE,
           live |-> TRUE]

\* due_payments = recurring_service.get_due_reminders(), up to the first await
JobStart ==
    /\ job.pc = "idle"
    /\ job.lastRun < today
    /\ \E s \in GetDueSoon(recurring, today, 2) :
           job' = [pc |-> IF s = <<>> THEN "idle" ELSE "sending", due |-> s,
                   idx |-> 1, lastRun |-> today, log |-> <<>>, live |-> TRUE]
    /\ call' = NoCall
    /\ UNCHANGED <<today, rate, held, weekly, pending, users, recVars, sentLog, lastIter, qryVars, expVars>>

JobIterAbort(ok) ==
    /\ job.pc = "sending"
    /\ LET payment == job.due[job.idx]
       IN  /\ sentLog' = IF ok THEN sentLog \cup {<<payment.id, payment.next_due_date>>}
                         ELSE sentLog
           /\ lastIter' = [id |-> payment.id, due |-> payment.next_due_date, sent |-> ok,
                           advanced |-> 0,
                           again |-> ok /\ <<payment.id, payment.next_due_date>> \in sentLog,
                           live |-> job.live]
    /\ job' = [job EXCEPT !.idx = job.idx + 1, !.pc = "idle", !.live = TRUE,
                          !.log = Append(job.log, [item |-> job.due[job.idx].id, ok |-> ok])]
    /\ call' = NoCall
    /\ UNCHANGED <<today, rate, held, weekly, pending, users, recVars, qryVars, expVars>>

\* one loop iteration: the awaited send returns (ok) or raises, then the
\* comparison, the advance and the except clause run without suspension, and
\* the send of the next item is started; job.live tells whether the payment of
\* the send now awaited was stored and Active when that send was started
JobIter(ok) ==
    /\ job.pc = "sending"
    /\ LET payment == job.due[job.idx]
           cmp == PyLe(PyDate(payment.next_due_date), LoopTime)
           doAdvance == ok /\ cmp.exc = "none" /\ cmp.val
       IN  /\ recurring' = IF doAdvance THEN AdvanceRows(recurring, payment) ELSE recurring
           /\ sentLog' = IF ok THEN sentLog \cup {<<payment.id, payment.next_due_date>>}
                         ELSE sentLog
           /\ lastIter' = [id |-> payment.id, due |-> payment.next_due_date, sent |-> ok,
                           advanced |-> IF doAdvance THEN 1 ELSE 0,
                           again |-> ok /\ <<payment.id, payment.next_due_date>> \in sentLog,
                           live |-> job.live]
    /\ job' = [job EXCEPT !.idx = job.idx + 1,
                          !.pc = IF job.idx + 1 > Len(job.due) THEN "idle" ELSE "sending",
                          !.live = IF job.idx + 1 > Len(job.due) THEN TRUE
                                   ELSE \E r \in recurring' :
                                           r.id = job.due[job.idx + 1].id /\ r.active,
                          !.log = Append(job.log, [item |-> job.due[job.idx].id, ok |-> ok])]
    /\ call' = NoCall
    /\ UNCHANGED <<today, rate, held, weekly, pending, users, nextRecId, qryVars, expVars>>

\* --------------------------------------------- send_weekly_report (weekly)
\* ALLOWED_USER_IDS, in the order of the configuration
AllowedUserIds == <<101, 102>>

\* the timer fires: the loop over ALLOWED_USER_IDS begins
WeeklyStart ==
    /\ weekly.pc = "idle"
    /\ weekly' = [pc |-> IF AllowedUserIds = <<>> THEN "idle" ELSE "sending", idx |-> 1,
                  log |-> <<>>]
    /\ call' = NoCall
    /\ UNCHANGED <<today, rate, held, pending, users, recVars, jobVars, qryVars, expVars>>

\* one loop iteration: get_week_summary, then the awaited send returns (ok)
\* or raises; the except clause logs and the loop goes on
WeeklyIter(ok) ==
    /\ weekly.pc = "sending"
    /\ LET user_id == AllowedUserIds[weekly.idx]
       IN  /\ call' = WeekSummaryOf(user_id)
           /\ weekly' = [weekly EXCEPT
                            !.idx = weekly.idx + 1,
                            !.pc = IF weekly.idx + 1 > Len(AllowedUserIds) THEN "idle"
                                   ELSE "sending",
                            !.log = Append(weekly.log, [item |-> user_id, ok |-> ok])]
    /\ UNCHANGED <<today, rate, held, pending, users, recVars, jobVars, qryVars, expVars>>

\* ------------------------------------------------------- initial state
InitCommon ==
    /\ today = Day0
    /\ users = {}
    /\ recurring = {}
    /\ nextRecId = 1
    /\ job = [pc |-> "idle", due |-> <<>>, idx |-> 1, lastRun |-> Day0 - 1, log |-> <<>>,
              live |-> TRUE]
    /\ sentLog = {}
    /\ lastIter = NoIter
    /\ lastAdv = [n |-> 0, id |-> 0, frequency |-> "none", old |-> 0, new |-> 0, applied |-> FALSE]
    /\ expenses = {}
    /\ nextExpId = 1
    /\ budgets = {}
    /\ call = NoCall
    /\ pending = NoPending
    /\ weekly = [pc |-> "idle", idx |-> 1, log |-> <<>>]
    /\ held = [k \in {1, 2} |-> [due |-> <<>>, done |-> {}]]
    /\ rate = [clock |-> 0, stamps |-> [u \in Users |-> <<>>],
               served |-> [u \in Users |-> <<>>]]

\* a well-formed recurring record from the parser
RecParsed(frequency, due) ==
    [shape |-> "dict", error |-> "missing", question |-> "missing", name |-> "n",
     amount |-> J("num", 15000), frequency |-> frequency, next_due_date |-> J("iso", due)]

\* {"error": "unclear", "question": q}: no other key is present
Unclear(q) ==
    [shape |-> "dict", error |-> "unclear", question |-> q, name |-> "missing",
     amount |-> JMissing, frequency |-> "missing", next_due_date |-> JMissing,
     type |-> "missing", category |-> "missing", description |-> "missing",
     date |-> JMissing]

\* ---------------------------------------- the bot: handlers and the job
SchedParsed ==
    {RecParsed("weekly", Day0 + k) : k \in {1, 3}} \cup {Unclear("which_payment")}

Init == InitCommon

Next ==
    \/ EnsureUser(101)
    \/ /\ nextRecId <= MaxJobRec
       /\ \E p \in SchedParsed : RecurringAddFromText(101, p)
    \/ \E id \in 1 .. MaxJobRec : DeletePayment(id, 101)
    \/ Tick
    \/ JobStart
    \/ \E ok \in BOOLEAN : JobIter(ok)

Spec == Init /\ [][Next]_vars

\* C1: every payment whose reminder was sent by send_reminders has had
\* advance_due_date invoked exactly once after the send, and no reminder is
\* sent twice for the same payment and due date.
C1_AdvancedOncePerSend ==
    lastIter.sent => (lastIter.advanced = 1 /\ ~lastIter.again)

\* ------------------------------- advance_due_date applied to stored payments
AdvParsed ==
    {RecParsed("monthly", d) : d \in {Date(2026, 1, 15), Date(2026, 12, 20)}}
        \cup {RecParsed("yearly", d) : d \in {Date(2026, 2, 20), Date(2027, 3, 1)}}
        \cup {RecParsed("weekly", Date(2026, 2, 20))}

InitAdvance ==
    /\ InitCommon

NextAdvance ==
    \/ EnsureUser(101)
    \/ \E p \in AdvParsed : RecurringAddFromText(101, p)
    \/ AdvanceDueDateFresh

SpecAdvance == InitAdvance /\ [][NextAdvance]_vars

\* C2: advance_due_date on a monthly payment stores the first day of the
\* following calendar month (December rolls over to 1 January of the next year).
C2_MonthlyFirstOfNextMonth ==
    (call.op = "advance_due_date" /\ lastAdv.frequency = "monthly") =>
        LET y == YearOf(lastAdv.old)
            m == MonthOf(lastAdv.old)
            first == IF m = 12 THEN Date(y + 1, 1, 1) ELSE Date(y, m + 1, 1)
        IN  \A r \in recurring : r.id = lastAdv.id => r.next_due_date = first

\* C3: advance_due_date on a yearly payment stores the same month and day in
\* the next calendar year, also when a 29 February lies in between.
C3_YearlySameDayNextYear ==
    (call.op = "advance_due_date" /\ lastAdv.frequency = "yearly") =>
        LET same == Date(YearOf(lastAdv.old) + 1, MonthOf(lastAdv.old), DayOf(lastAdv.old))
        IN  \A r \in recurring : r.id = lastAdv.id => r.next_due_date = same

\* ------------------------------------------ get_due_soon over the store
DueParsed == {RecParsed("weekly", Day0 + k) : k \in {0, 2, 3}}

NextDueSoon ==
    \/ EnsureUser(101)
    \/ \E p \in DueParsed : RecurringAddFromText(101, p)
    \/ \E id \in 1 .. MaxRec, a \in BOOLEAN : TogglePayment(id, 101, a)
    \/ \E id \in 1 .. MaxRec : DeletePayment(id, 101)
    \/ Tick
    \/ \E h \in 0 .. MaxHorizon : GetDueSoonCall(h)
    \/ GetDueReminders

SpecDueSoon == InitCommon /\ [][NextDueSoon]_vars

\* C4: get_due_soon(h) returns exactly the Active payments with
\* next_due_date <= today + h, each once, in ascending order of next_due_date.
C4_DueSoonExact ==
    call.op = "get_due_soon" =>
        /\ {call.rows[i] : i \in 1 .. Len(call.rows)}
               = {r \in recurring : r.active /\ r.next_due_date - today <= call.days_ahead}
        /\ Len(call.rows) = Cardinality({r \in recurring :
                                r.active /\ r.next_due_date - today <= call.days_ahead})
        /\ \A i, j \in 1 .. Len(call.rows) :
               i < j => call.rows[i].next_due_date <= call.rows[j].next_due_date

\* get_due_soon(2) kept a payment due in exactly 2 days and left out one due
\* in 3 days and an Inactive one that is already due.
C4_Witness ==
    /\ call.op = "get_due_soon"
    /\ call.days_ahead = 2
    /\ \E i \in 1 .. Len(call.rows) : call.rows[i].next_due_date = today + 2
    /\ \E r \in recurring : r.active /\ r.next_due_date = today + 3
    /\ \E r \in recurring : ~r.active /\ r.next_due_date <= today

\* ------------------------------------------------ budgets and thresholds
Euro(n) == n * 1000

\* a well-formed transaction record from the parser
TxParsed(type, amount, category, date) ==
    [shape |-> "dict", error |-> "missing", question |-> "missing", type |-> type,
     amount |-> J("num", amount), category |-> category, description |-> "d",
     date |-> J("iso", date)]

BudgetParsed ==
    {TxParsed("expense", Euro(a), "food", Day0) : a \in {150, 10}}
        \cup {TxParsed("expense", Euro(20), "rent", Day0),
              TxParsed("expense", 9040, "food", Day0),
              TxParsed("income", Euro(150), "food", Day0),
              TxParsed("expense", Euro(150), "food", Date(2025, 12, 31))}

NextBudget ==
    \/ \E p \in BudgetParsed : HandleTextMessage(101, "t", p)
    \/ \E c \in {"food", Overall}, a \in {0, Euro(200), 11300} : SetBudget(101, c, a)
    \/ \E c \in {"food", Overall} : DeleteBudget(101, c)
    \/ GetBudgetStatus(101)

SpecBudget == InitCommon /\ [][NextBudget]_vars

\* C5: with a limit > 0 and a spend >= 0, get_budget_status and
\* check_budget_alert classify spend/limit >= 1.0 as Exceeded, 0.8 <= spend/limit
\* < 1.0 as Warning and spend/limit < 0.8 as Safe, and check_budget_alert emits
\* an alert line exactly for Warning and Exceeded.
C5_Tiers ==
    /\ \A l \in call.lines : (l.limit > 0 /\ l.spent >= 0) =>
           /\ (l.status = "exceeded") <=> (l.spent >= l.limit)
           /\ (l.status = "warning") <=> (5 * l.spent >= 4 * l.limit /\ l.spent < l.limit)
           /\ (l.status = "safe") <=> (5 * l.spent < 4 * l.limit)
    /\ \A k \in call.checks : (k.limit > 0 /\ k.spent >= 0) =>
           /\ (k.level = "exceeded") <=> (k.spent >= k.limit)
           /\ (k.level = "warning") <=> (5 * k.spent >= 4 * k.limit /\ k.spent < k.limit)
           /\ (k.level = "safe") <=> (5 * k.spent < 4 * k.limit)
           /\ ([scope |-> k.scope, level |-> k.level] \in call.alerts) <=> (k.level # "safe")
    /\ \A a \in call.alerts : \E k \in call.checks : k.scope = a.scope /\ k.level = a.level

\* C6: a configured limit of 0 gives ratio 0: get_budget_status shows it as
\* Safe, check_budget_alert appends no alert for it, and neither raises a
\* division fault.
C6_ZeroLimitSafe ==
    /\ call.raised # "ZeroDivisionError"
    /\ \A l \in call.lines : l.limit = 0 => l.status = "safe"
    /\ \A k \in call.checks : k.limit = 0 =>
           (k.level = "safe" /\ ~(\E a \in call.alerts : a.scope = k.scope))
    /\ (call.op = "get_budget_status" /\ call.raised = "none") =>
           \A b \in budgets : b.user_id = call.user =>
               \E l \in call.lines : l.category = b.category /\ l.limit = b.limit_amount
    /\ (call.op = "add_from_text" /\ call.success) =>
           \A b \in budgets : (b.user_id = call.user /\ b.category = Overall) =>
               \E k \in call.checks : k.scope = "overall" /\ k.limit = b.limit_amount

\* a transaction was recorded while the overall limit is 0 and the month's
\* spend is positive: the check ran on (spend, 0) and the reply has no alert
C6_Witness ==
    /\ call.op = "add_from_text"
    /\ call.success
    /\ \E k \in call.checks : k.limit = 0 /\ k.spent > 0 /\ k.scope = "overall"
    /\ call.alerts = {}

\* ---------------------------------- transactions: add, edit and delete
GoodTx == TxParsed("expense", Euro(50), "food", Day0)

\* parser outputs that are not a well-formed transaction record
BadTx ==
    {[GoodTx EXCEPT !.shape = "list"],
     [GoodTx EXCEPT !.type = "missing"],
     [GoodTx EXCEPT !.amount = JMissing],
     [GoodTx EXCEPT !.amount = JNull],
     [GoodTx EXCEPT !.amount = J("badstr", 0)],
     [GoodTx EXCEPT !.date = JNull],
     [GoodTx EXCEPT !.date = J("badstr", 0)]}

TxInputs ==
    {GoodTx, TxParsed("income", Euro(50), "food", Day0),
     [GoodTx EXCEPT !.amount = J("num", 0)],
     [GoodTx EXCEPT !.amount = J("num", Euro(-5))],
     [GoodTx EXCEPT !.type = "transfer"],
     Unclear("which_amount"), Unclear("missing")} \cup BadTx

\* /edit <id> with the fields its regular expressions can produce
EditAmounts == {JNull, J("num", 0), J("num", Euro(75))}

NextTx ==
    \/ \E t \in {"", "t"}, p \in TxInputs : HandleTextMessage(101, t, p)
    \/ \E id \in 1 .. MaxTx, a \in EditAmounts, c \in {"none", "rent"} :
           EditExpense(id, 101, a, c, "none")
    \/ \E id \in 1 .. MaxTx : DeleteExpense(id, 101)

SpecTx == InitCommon /\ [][NextTx]_vars

\* C7: when the parser returns the unclear signal {error, question},
\* add_from_text returns a failure carrying that question unchanged and the
\* stored transactions are unchanged.
C7_UnclearKeepsQuestion ==
    [][(/\ call'.op = "add_from_text"
        /\ call'.parsed.shape = "dict"
        /\ call'.parsed.error # "missing"
        /\ call'.parsed.question # "missing")
       => (/\ ~call'.success
           /\ call'.raised = "none"
           /\ call'.question = call'.parsed.question
           /\ expenses' = expenses)]_vars

\* the unclear signal was answered with its own question while a transaction
\* was already stored
C7_Witness ==
    /\ call.op = "add_from_text"
    /\ call.parsed.error = "unclear"
    /\ call.question = "which_amount"
    /\ ~call.success
    /\ expenses # {}

\* C8: a non-conforming parser output (not a record, a required field missing,
\* amount null or non-numeric, date null or not an ISO string) makes both
\* add_from_text services return the failure-with-question result without
\* raising, and no row is persisted.
C8_NonConformingIsUnclear ==
    (/\ call.op \in {"add_from_text", "recurring_add_from_text"}
     /\ \/ call.parsed.shape # "dict"
        \/ /\ call.parsed.error = "missing"
           /\ \/ call.parsed.amount.k \in {"missing", "null", "badstr"}
              \/ call.op = "add_from_text" /\ call.parsed.type = "missing"
              \/ call.op = "add_from_text" /\ call.parsed.date.k \in {"missing", "null", "badstr"}
              \/ call.op = "recurring_add_from_text"
                    /\ (call.parsed.name = "missing" \/ call.parsed.frequency = "missing"
                        \/ call.parsed.next_due_date.k \in {"missing", "null", "badstr"}))
    => (/\ call.raised = "none"
        /\ ~call.success
        /\ call.question # "none")

\* C9: every stored transaction has amount > 0 and kind expense or income.
C9_PositiveAmountAndKind ==
    \A r \in expenses : r.amount > 0 /\ r.type \in TxTypes

\* ------------------------------------- two owners, ids of either owner
\* The two tables are independent; a run fills one of them.
NextOwner ==
    \/ \E u \in Users : EnsureUser(u)
    \/ /\ recurring = {} /\ nextRecId = 1 /\ nextExpId <= MaxOwn
       /\ \E u \in Users : HandleTextMessage(u, "t", GoodTx)
    \/ \E id \in 1 .. MaxOwn + 1, u \in Users : DeleteExpense(id, u)
    \/ \E id \in 1 .. MaxOwn + 1, u \in Users, a \in {JNull, J("num", Euro(75))} :
           EditExpense(id, u, a, "none", "none")
    \/ /\ expenses = {} /\ nextExpId = 1 /\ nextRecId <= MaxOwn
       /\ \E u \in Users : RecurringAddFromText(u, RecParsed("weekly", Day0 + 1))
    \/ \E id \in 1 .. MaxOwn + 1, u \in Users : DeletePayment(id, u)
    \/ \E id \in 1 .. MaxOwn + 1, u \in Users, a \in BOOLEAN : TogglePayment(id, u, a)

SpecOwner == InitCommon /\ [][NextOwner]_vars

\* C10: delete_expense, edit_expense, delete_payment and toggle_payment called
\* with an id that does not exist or belongs to another user change no stored
\* record and return the same not-found message in both cases.
C10_ForeignIdIsNotFound ==
    [][/\ (/\ call'.op \in {"delete_expense", "edit_expense"}
           /\ ~(\E r \in expenses : r.id = call'.id /\ r.user_id = call'.user))
          => (/\ expenses' = expenses
              /\ recurring' = recurring
              /\ ~call'.success
              /\ call'.msg = "not_found_or_not_yours")
       /\ (/\ call'.op \in {"delete_payment", "toggle_payment"}
           /\ ~(\E r \in recurring : r.id = call'.id /\ r.user_id = call'.user))
          => (/\ expenses' = expenses
              /\ recurring' = recurring
              /\ ~call'.success
              /\ call'.msg = "recurring_not_found")]_vars

\* delete_expense was refused for an id that exists and belongs to the other user
C10_Witness ==
    /\ call.op = "delete_expense"
    /\ call.msg = "not_found_or_not_yours"
    /\ \E r \in expenses : r.id = call.id /\ r.user_id # call.user

\* --------------------- edit_expense while another client edits the table
MaxEdit == 2

NextEdit ==
    \/ /\ nextExpId <= MaxEdit
       /\ HandleTextMessage(101, "t", GoodTx)
    \/ \E id \in 1 .. MaxEdit, a \in {JNull, J("num", Euro(75))}, c \in {"none", "rent"},
          d \in {"none", "e"} : EditRead(id, 101, a, c, d)
    \/ EditWrite
    \/ \E id \in 1 .. MaxEdit, a \in {JNull, J("num", Euro(60))}, c \in {"none", "fun"} :
           EditExpense(id, 101, a, c, "none")
    \/ \E id \in 1 .. MaxEdit : DeleteExpense(id, 101)

SpecEdit == InitCommon /\ [][NextEdit]_vars

\* C11: an edit_expense that returns changes, on the edited transaction, only
\* the fields among amount, category and description that it was given, and
\* changes no other transaction, whatever was committed between its get_by_id
\* and its update; with no field given it writes nothing.
C11_EditFrame ==
    [][call'.op = "edit_expense" =>
          \A r \in expenses :
              \E q \in expenses' :
                  /\ q.id = r.id
                  /\ (r.id # call'.id \/ r.user_id # call'.user) => q = r
                  /\ q.type = r.type /\ q.date = r.date /\ q.user_id = r.user_id
                  /\ q.raw_text = r.raw_text
                  /\ call'.parsed.amount.k = "null" => q.amount = r.amount
                  /\ call'.parsed.category = "none" => q.category = r.category
                  /\ call'.parsed.description = "none" => q.description = r.description]_vars

\* ------------------------------------------------ summaries over a store
MaxSum == 2
WindowYears == 2025 .. 2028

SumParsed ==
    {TxParsed("expense", Euro(50), "food", Day0),
     TxParsed("income", Euro(30), "food", Day0 - 3),
     TxParsed("expense", Euro(20), "food", Date(2025, 12, 31))}

NextSummary ==
    \/ /\ nextExpId <= MaxSum
       /\ \E p \in SumParsed : HandleTextMessage(101, "t", p)
    \/ GetTodaySummary(101)
    \/ GetWeekSummary(101)
    \/ \E a, b \in {Date(2025, 12, 31), Day0 - 3, Day0} : GetDateRangeReport(101, a, b)
    \/ \E y \in WindowYears \cup {0}, m \in 0 .. 12 : GetMonthSummary(101, y, m)
    \/ \E y \in {0, 2025}, m \in 0 .. 12 : GetCategoryDetails(101, "food", y, m)
    \/ \E y \in {2025, 2026}, m \in {1, 12} : ExportMonthCsv(101, y, m)
    \/ \E y \in {2025, 2026}, m \in {1, 12} : ExportMonthExcel(101, y, m)

SpecSummary == InitCommon /\ [][NextSummary]_vars

\* C12: for every year and every month 1..12 the month window of a service is
\* [first day of the month, last calendar day of the month]: February 2026
\* ends on the 28th, a leap-year February on the 29th, December on 31 December
\* of the same year.
C12_MonthWindow ==
    call.op \in {"get_month_summary", "get_category_details"} =>
        LET y == call.parsed.year
            m == call.parsed.month
        IN  /\ YearOf(call.start) = y /\ MonthOf(call.start) = m /\ DayOf(call.start) = 1
            /\ YearOf(call.end) = y /\ MonthOf(call.end) = m
            /\ ~(YearOf(call.end + 1) = y /\ MonthOf(call.end + 1) = m)
            /\ (y = 2026 /\ m = 2) => (DayOf(call.end) = 28)
            /\ (IsLeap(y) /\ m = 2) => (DayOf(call.end) = 29)
            /\ (m = 12) => (DayOf(call.end) = 31)

\* the details of December 2025 were asked for and include a transaction dated
\* on the last day of the window, 2025-12-31
C12_Witness ==
    /\ call.op = "get_category_details"
    /\ call.parsed = [year |-> 2025, month |-> 12]
    /\ \E r \in call.sel : r.date = call.end

\* C20: every summary (today, 7 days, month, date range, one category of a
\* month) reports the sum of the expense amounts, the sum of the income
\* amounts and net = income - expense of the transactions it covers; no
\* reported total adds an income amount to an expense amount.
C20_SeparateSums ==
    (call.op \in {"get_today_summary", "get_week_summary", "get_month_summary",
                  "get_date_range_report", "get_category_details"}
     /\ call.sel # {})
    => /\ Figure("total_expenses", SumOfType(call.sel, "expense")) \in call.report
       /\ Figure("total_income", SumOfType(call.sel, "income")) \in call.report
       /\ Figure("net", SumOfType(call.sel, "income") - SumOfType(call.sel, "expense"))
              \in call.report
       /\ \A f \in call.report :
              f.label # "net" =>
                  f.v \in {SumOfType(call.sel, "expense"), SumOfType(call.sel, "income")}

C14_AlertThisMonthOnly ==
    [][(call'.op = "add_from_text" /\ call'.success) =>
          LET u == call'.user
              cat == IF call'.parsed.category = "missing" THEN "other"
                     ELSE call'.parsed.category
              thisMonth == {r \in expenses' :
                              /\ r.user_id = u /\ r.type = "expense"
                              /\ YearOf(r.date) = YearOf(today)
                              /\ MonthOf(r.date) = MonthOf(today)}
              backdated == call'.parsed.date.v < MonthStart(YearOf(today), MonthOf(today))
          IN  /\ \A k \in call'.checks :
                    k.spent = IF k.scope = "overall" THEN SumAmounts(thisMonth)
                              ELSE SumAmounts({r \in thisMonth : r.category = cat})
              /\ backdated =>
                    /\ call'.checks = BudgetChecks(expenses, u, cat)
                    /\ call'.alerts = AlertLines(BudgetChecks(expenses, u, cat))]_vars

\* an expense dated in the previous month and larger than the category limit
\* was recorded, the category check ran and the reply carries no alert
C14_Witness ==
    /\ call.op = "add_from_text"
    /\ call.success
    /\ call.parsed.date.v < MonthStart(YearOf(today), MonthOf(today))
    /\ call.parsed.type = "expense"
    /\ \E k \in call.checks : /\ k.scope = "category" /\ k.limit > 0
                              /\ call.parsed.amount.v >= k.limit /\ k.level = "safe"
    /\ call.alerts = {}

\* ------------------------------ the life of a recurring payment
MaxLife == 2

LifeParsed == {RecParsed("weekly", Day0 + 1), RecParsed("monthly", Day0 + 2)}

NextLife ==
    \/ EnsureUser(101)
    \/ /\ nextRecId <= MaxLife
       /\ \E p \in LifeParsed : RecurringAddFromText(101, p)
    \/ \E id \in 1 .. MaxLife, a \in BOOLEAN : TogglePayment(id, 101, a)
    \/ \E id \in 1 .. MaxLife : DeletePayment(id, 101)
    \/ GetDueSoonCall(2)
    \/ ListActive(101)
    \/ \E id \in 1 .. MaxLife : GetByIdCall(id, 101)
    \/ AdvanceDueDateCall
    \/ AdvanceDueDateFresh

SpecLife == InitCommon /\ [][NextLife]_vars

\* C15: a recurring payment is Active right after creation and its flag is
\* always Active or Inactive; toggle_payment(id, owner, false) makes it
\* Inactive, toggle_payment(id, owner, true) Active, delete removes it, and no
\* other operation changes the flag of a payment.
C15_ActiveFlag ==
    /\ [](\A r \in recurring : r.active \in BOOLEAN)
    /\ [][/\ \A q \in recurring' :
                (~ \E r \in recurring : r.id = q.id) => q.active = TRUE
          /\ (call'.op = "toggle_payment" /\ call'.success) =>
                \A q \in recurring' :
                    (q.id = call'.id /\ q.user_id = call'.user)
                        => q.active = call'.parsed.active
          /\ (call'.op = "delete_payment" /\ call'.success) =>
                ~ \E q \in recurring' : q.id = call'.id
          /\ \A r \in recurring, q \in recurring' :
                (q.id = r.id /\ ~(call'.op = "toggle_payment" /\ call'.id = r.id))
                    => q.active = r.active
       ]_vars

\* advance_due_date was applied to a payment that is Inactive, and it still is
C15_Witness ==
    /\ call.op = "advance_due_date"
    /\ lastAdv.applied
    /\ \E r \in recurring : r.id = lastAdv.id /\ ~r.active /\ r.next_due_date = lastAdv.new

\* C16: only advance_due_date changes the next_due_date of an existing
\* payment: get_due_soon, list_active / get_all and get_by_id leave the whole
\* store unchanged, and toggle_payment leaves every next_due_date unchanged.
C16_DueDateFrame ==
    [][/\ (call'.op # "advance_due_date") =>
              \A r \in recurring, q \in recurring' :
                  q.id = r.id => q.next_due_date = r.next_due_date
       /\ (call'.op \in {"get_due_soon", "list_active", "get_by_id"}) =>
              (recurring' = recurring /\ nextRecId' = nextRecId)
      ]_vars

\* a payment whose due date had been advanced was enabled again and kept the
\* advanced date
C16_Witness ==
    /\ call.op = "toggle_payment"
    /\ call.success
    /\ call.parsed.active
    /\ lastAdv.applied
    /\ \E r \in recurring : r.id = call.id /\ r.id = lastAdv.id /\ r.next_due_date = lastAdv.new

\* ------------------------------------------------- the two scheduled jobs
MaxBatch == 2

NextBatch ==
    \/ EnsureUser(101)
    \/ /\ nextRecId <= MaxBatch
       /\ \E k \in {1, 2} : RecurringAddFromText(101, RecParsed("weekly", Day0 + k))
    \/ /\ nextExpId <= MaxBatch
       /\ HandleTextMessage(101, "t", GoodTx)
    \/ JobStart
    \/ \E ok \in BOOLEAN : JobIter(ok)
    \/ WeeklyStart
    \/ \E ok \in BOOLEAN : WeeklyIter(ok)

SpecBatch == InitCommon /\ [][NextBatch]_vars

\* C17: in a run of send_reminders or send_weekly_report a failure on one item
\* does not stop the run: the items handled so far are exactly the first items
\* of the batch, in order and once each, whether they failed or not, and the
\* run ends only after the last item.
C17_BatchIsolation ==
    /\ Len(job.log) = job.idx - 1
    /\ \A i \in 1 .. Len(job.log) : job.log[i].item = job.due[i].id
    /\ (job.pc = "idle") => (Len(job.log) = Len(job.due))
    /\ Len(weekly.log) = weekly.idx - 1
    /\ \A i \in 1 .. Len(weekly.log) : weekly.log[i].item = AllowedUserIds[i]
    /\ (weekly.pc = "idle" /\ weekly.log # <<>>) => (Len(weekly.log) = Len(AllowedUserIds))

\* both runs are over; in each the first item failed and the second item was
\* still handled, successfully
C17_Witness ==
    /\ job.pc = "idle" /\ Len(job.log) = 2
    /\ ~job.log[1].ok /\ job.log[2].ok
    /\ weekly.pc = "idle" /\ Len(weekly.log) = 2
    /\ ~weekly.log[1].ok /\ weekly.log[2].ok

\* ----------------------- well-formed records the tables' constraints refuse
DbTx == {GoodTx, [GoodTx EXCEPT !.type = "transfer"]}

DbRec == {RecParsed("weekly", Day0 + 1), RecParsed("biweekly", Day0 + 1)}

NextDb ==
    \/ \E u \in Users : EnsureUser(u)
    \/ /\ nextExpId <= MaxOwn
       /\ \E u \in Users, p \in DbTx : HandleTextMessage(u, "t", p)
    \/ /\ nextRecId <= MaxOwn
       /\ \E u \in Users, p \in DbRec : RecurringAddFromText(u, p)

SpecDb == InitCommon /\ [][NextDb]_vars

\* C18: ExpenseService.add_from_text and RecurringService.add_from_text never
\* let an exception reach the handler: every error inside them, a failure of
\* the INSERT included, comes back as the failure-with-question result.
C18_AddNeverRaises ==
    call.op \in {"add_from_text", "recurring_add_from_text"} =>
        /\ call.raised = "none"
        /\ ~call.success => call.question # "none"

\* C19: handling a text message commits no write before the parser has
\* returned, so an attempt that ends without a stored transaction (the parse
\* was unclear or malformed, or the INSERT failed and was rolled back) leaves
\* every table as it was before the message.
C19_NoWriteBeforeParse ==
    [][(call'.op = "add_from_text" /\ ~call'.success) =>
          /\ users' = users
          /\ expenses' = expenses
          /\ budgets' = budgets
          /\ recurring' = recurring]_vars

\* C21: grouping the lines exported by export_month_csv / export_month_excel
\* by category and summing their amounts gives, for every category, the total
\* that get_category_summary returns for the same user and month window.
C21_ExportRoundTrip ==
    call.op \in {"export_month_csv", "export_month_excel"} =>
        GroupByCategory(call.sel)
            = GetCategorySummary(expenses, call.user, call.start, call.end)

\* --------------------------------------- add_from_text, then get_by_id
\* valid records: amount > 0 (whole euros, cents, thousandths), both kinds
ValidTx ==
    {TxParsed(t, a, c, d) : t \in TxTypes, a \in {Euro(50), 12340, 12345},
                            c \in {"food"}, d \in {Day0, Date(2025, 12, 31)}}

NextReadBack ==
    \/ \E p \in ValidTx : HandleTextMessage(101, "t", p)
    \/ ReadBack
    \/ \E id \in 1 .. MaxTx : DeleteExpense(id, 101)

SpecReadBack == InitCommon /\ [][NextReadBack]_vars

\* C22: for a valid parsed transaction (amount > 0, kind expense or income),
\* add_from_text followed at once by get_by_id of the created id by the same
\* owner yields a transaction with the identical amount, kind, category and date.
C22_AddThenRead ==
    call.op = "expense_get_by_id" =>
        /\ Cardinality(call.sel) = 1
        /\ \A r \in call.sel :
              /\ r.amount = call.parsed.amount.v
              /\ r.type = call.parsed.type
              /\ r.category = call.parsed.category
              /\ r.date = call.parsed.date.v

MaxManual == 2

AmountParts ==
    {<<"1", "5">>, <<"ar1", "ar5">>, <<"1", "5", "eur">>, <<"1", ".", "5">>,
     <<"a">>, <<"1", ".", "5", ".", "2">>}

ManualTexts ==
    {<<>>, <<"netflix">>}
      \cup {<<"netflix", a, f>> : a \in AmountParts, f \in {"shahri", "Weekly", "fortnightly"}}
      \cup {<<"netflix", <<"1", "5">>, f, d>> :
                f \in {"sanawi", "fortnightly"},
                d \in {J("iso", Date(2026, 3, 1)), J("badstr", 0), J("empty", 0)}}

NextManual ==
    \/ EnsureUser(101)
    \/ /\ nextRecId <= MaxManual
       /\ \E t \in ManualTexts, p \in LifeParsed \cup {Unclear("which_payment")} :
              AddRecurringCommand(101, t, p)
    \/ ListActive(101)
    \/ \E id \in 1 .. MaxManual : DeletePayment(id, 101)

SpecManual == InitCommon /\ [][NextManual]_vars

\* C24: add_recurring_command given a well-formed structured text (at least
\* three parts, parseable amount in Western or Arabic digits, recognized
\* frequency word) stores an active payment of the caller with exactly the
\* parsed amount, frequency and due date, replies with the success message
\* and does not call the natural-language parser; the parser is called only
\* for a text that is not well-formed.
C24_StructuredAdd ==
    (call.op = "add_recurring_command" /\ call.text # <<>>) =>
        LET m == ParseManual(call.text)
        IN  /\ m.ok =>
                  /\ call.via = "manual"
                  /\ call.success
                  /\ call.msg = "recurring_added"
                  /\ \E r \in recurring :
                        /\ r.id = call.id
                        /\ r.user_id = call.user
                        /\ r.amount = m.amount
                        /\ r.frequency = m.frequency
                        /\ r.next_due_date = m.next_due_date
                        /\ r.active
            /\ call.via = "parser" => ~m.ok

\* ------------------------------------------- rate limiting
NextRate ==
    \/ ClockTick
    \/ \E u \in Users, cmd \in {"budget", "recurring"} : RateLimited(u, cmd)

SpecRate == InitCommon /\ [][NextRate]_vars

\* the handler entries of user u in the window of RATE_LIMIT_WINDOW_SECONDS
\* seconds that ends at time t (the instant t - RATE_LIMIT_WINDOW_SECONDS
\* itself lies outside)
ServedIn(r, u, t) ==
    {i \in 1 .. Len(r.served[u]) :
        r.served[u][i] > t - RATE_LIMIT_WINDOW_SECONDS /\ r.served[u][i] <= t}

\* C25: in every window of RATE_LIMIT_WINDOW_SECONDS seconds, at most
\* RATE_LIMIT_MESSAGES requests of one user enter a rate-limited handler,
\* whatever the commands; a request that arrives when the user's window is
\* full gets the warning, does not enter the handler and leaves no
\* timestamp; and a request of one user changes nothing of another user.
C25_SlidingWindow ==
    /\ [](\A u \in Users, t \in 0 .. MaxClock :
             Cardinality(ServedIn(rate, u, t)) <= RATE_LIMIT_MESSAGES)
    /\ [][call'.op = "rate_limited" =>
             LET u == call'.user
                 full == Cardinality(ServedIn(rate, u, rate.clock)) >= RATE_LIMIT_MESSAGES
             IN  /\ full => /\ call'.msg = "rate_limit_warning"
                            /\ rate'.served[u] = rate.served[u]
                            /\ \A i \in 1 .. Len(rate'.stamps[u]) :
                                  \E j \in 1 .. Len(rate.stamps[u]) :
                                      rate'.stamps[u][i] = rate.stamps[u][j]
                            /\ Len(rate'.stamps[u]) <= Len(rate.stamps[u])
                 /\ \A v \in Users \ {u} :
                        /\ rate'.stamps[v] = rate.stamps[v]
                        /\ rate'.served[v] = rate.served[v]]_vars

C25_Witness ==
    /\ call.op = "rate_limited"
    /\ call.msg = "rate_limit_warning"
    /\ rate.clock >= RATE_LIMIT_WINDOW_SECONDS
    /\ Len(rate.served[call.user]) > RATE_LIMIT_MESSAGES
    /\ \E v \in Users \ {call.user} : Len(rate.served[v]) > 0

\* C26: get_due_reminders returns only Active payments that are due within
\* their own remind_days_before days: next_due_date <= today +
\* remind_days_before.
C26_OwnReminderHorizon ==
    call.op = "get_due_reminders" =>
        \A i \in 1 .. Len(call.rows) :
            /\ call.rows[i].active
            /\ call.rows[i].next_due_date <= today + call.rows[i].remind_days_before

\* ------------------------------------------- due-soon over the days
MaxPersist == 2

NextPersist ==
    \/ EnsureUser(101)
    \/ /\ nextRecId <= MaxPersist
       /\ \E p \in DueParsed : RecurringAddFromText(101, p)
    \/ \E id \in 1 .. MaxPersist, a \in BOOLEAN : TogglePayment(id, 101, a)
    \/ \E id \in 1 .. MaxPersist : DeletePayment(id, 101)
    \/ Tick
    \/ \E h \in 0 .. MaxHorizon : GetDueSoonCall(h)

SpecPersist == InitCommon /\ [][NextPersist]_vars

\* C27: a payment that get_due_soon(h) returns today is returned by
\* get_due_soon(h) after every step that leaves its row as it is (no advance,
\* no disable, no delete), the passing of a day included.
C27_DueSoonPersists ==
    [][\A h \in 0 .. MaxHorizon :
          \A s \in GetDueSoon(recurring, today, h) :
              \A i \in 1 .. Len(s) :
                  s[i] \in recurring' =>
                      \A t \in GetDueSoon(recurring', today', h) :
                          \E j \in 1 .. Len(t) : t[j] = s[i]]_vars

\* two days after its due date, a payment that get_due_soon(0) returned on
\* its due date is still returned by get_due_soon(0)
C27_Witness ==
    /\ call.op = "get_due_soon"
    /\ call.days_ahead = 0
    /\ today = Day0 + 2
    /\ \E i \in 1 .. Len(call.rows) : call.rows[i].next_due_date = Day0

MaxStale == 2
MaxStaleAdv == 3

StaleParsed == {RecParsed("weekly", Day0 + 1), RecParsed("daily", Day0)}

NextStale ==
    \/ EnsureUser(101)
    \/ /\ nextRecId <= MaxStale
       /\ \E p \in StaleParsed : RecurringAddFromText(101, p)
    \/ \E k \in Callers : HoldDueSoon(k)
    \/ /\ lastAdv.n < MaxStaleAdv
       /\ \E k \in Callers : AdvanceHeld(k)

SpecStale == InitCommon /\ [][NextStale]_vars

\* C29: when two callers have read the same payment with the same
\* next_due_date from get_due_soon and both have called advance_due_date on
\* it, the stored next_due_date is one period after the date they read, not
\* two.
C29_StaleAdvanceOnce ==
    \A p \in held[1].done \cap held[2].done :
        \A r \in recurring :
            r.id = p.id => r.next_due_date = PlusDays(p.next_due_date, DeltaDays(p.frequency))

\* both callers have advanced the same weekly payment read with the same date
C29_Witness ==
    /\ \E p \in held[1].done \cap held[2].done :
          /\ p.frequency = "weekly"
          /\ \E r \in recurring : r.id = p.id /\ r.next_due_date = p.next_due_date + 7
    /\ lastAdv.n >= 2

\* C30: no reminder is sent for a payment that was already deleted or
\* disabled when its send was started, also when the delete is handled while
\* the run awaits an earlier send; and handling such a payment in the run
\* neither stores a payment again nor ends the run.
C30_NoReminderAfterDelete ==
    /\ [](lastIter.sent => lastIter.live)
    /\ [][(job.pc = "sending" /\ job'.idx = job.idx + 1) =>
             /\ {r.id : r \in recurring'} \subseteq {r.id : r \in recurring}
             /\ job'.pc = (IF job.idx + 1 > Len(job.due) THEN "idle" ELSE "sending")]_vars
====
